---- MODULE Spec2Model ----
(***************************************************************************)
(* Model of src/demo.cc: the block-chain shape generator (initializeShape)  *)
(* and the multi-viewport frame driver (class Demo).                        *)
(*                                                                          *)
(* Numbers.  Every float of the program is modelled by an integer count of  *)
(* 1/One units (One = 2^FracBits), rounded to MantissaBits significant bits *)
(* after every arithmetic operation, round-to-nearest-even, as IEEE-754     *)
(* single precision does.  Multiplying by a power of two is exact in binary *)
(* floating point, so it only changes the unit a value is counted in.       *)
(***************************************************************************)
EXTENDS Integers, Sequences, FiniteSets, TLC

VARIABLES
    m_canvasWidth,   \* Demo::m_canvasWidth
    m_canvasHeight,  \* Demo::m_canvasHeight
    m_curTime,       \* Demo::m_curTime (float, in 1/One seconds)
    m_shapeProgram,  \* Demo::m_shapeProgram: "null" state or the shader program's record
    m_shapes,        \* Demo::m_shapes
    generator,       \* the static random engine of initializeShape
    initResult,      \* what Demo::initialize returned: "none" (not called), "true", "false"
    crashed,         \* the process was killed by a trap
    frames,          \* history: what each call of Demo::render issued to GL
    dts,             \* history: the dt argument of each renderAndStep call
    stderr,          \* diagnostics printed by initializeProgram
    segments,        \* initializeShape: its argument
    idx,             \* initializeShape: number of segments the for loop has processed
    walk,            \* initializeShape: center, direction, side, blocks
    vertices,        \* initializeShape: the vertex vector
    shape,           \* initializeShape: the returned Shape
    pc,              \* initializeShape: "idle", "walk" (in the segment loop), "done" (returned)
    run,             \* number of the process run (1 or 2)
    firstRun,        \* what the first process run generated
    seed             \* state the static engine is constructed in at process start

vars == <<m_canvasWidth, m_canvasHeight, m_curTime, m_shapeProgram, m_shapes,
          generator, initResult, crashed, frames, dts, stderr,
          segments, idx, walk, vertices, shape, pc, run, firstRun, seed>>

demoVars == <<m_canvasWidth, m_canvasHeight, m_curTime, m_shapeProgram, m_shapes,
              initResult, crashed, frames, dts, stderr>>

callVars == <<segments, idx, walk, vertices, shape, pc, run, firstRun, seed>>

----------------------------------------------------------------------------
(* Bounds of the model *)

MaxSegs == 2        \* longest segment list explored besides the program's own
MaxLen == 2         \* largest segment length explored besides the program's own
GenBits == 4        \* length of the bit register that stands for the random engine
MaxFrames == 3      \* renderAndStep calls per behaviour
MaxShapes == 7      \* largest shape collection the layout is explored for
FracBits == 1       \* fractional bits of the number representation
MaxExponent == 6    \* FltMax = (2^MantissaBits - 1) * 2^MaxExponent

(* Program constants *)

MantissaBits == 24
Columns == 3
ShapeCount == 6
DemoSegments == <<3, 3, 2, 3>>
InitialDirection == 2
VertexSize == 20

----------------------------------------------------------------------------
(* float *)

One == 2 ^ FracBits

Fl(n) == n * One

FltMax == (2 ^ MantissaBits - 1) * 2 ^ MaxExponent

FltMin == 1

Abs(n) == IF n < 0 THEN 0 - n ELSE n

RECURSIVE UlpOf(_, _)
UlpOf(n, u) == IF n < (2 ^ MantissaBits) * u THEN u ELSE UlpOf(n, 2 * u)

RoundMagnitude(n) ==
    LET u == UlpOf(n, 1)
        q == n \div u
        r == n % u
    IN  IF 2 * r < u THEN q * u
        ELSE IF 2 * r > u THEN (q + 1) * u
        ELSE IF q % 2 = 0 THEN q * u ELSE (q + 1) * u

RoundFloat(n) == IF n < 0 THEN 0 - RoundMagnitude(0 - n) ELSE RoundMagnitude(n)

FAdd(a, b) == RoundFloat(a + b)

FMin(a, b) == IF b < a THEN b ELSE a

FMax(a, b) == IF a < b THEN b ELSE a

(* glm::vec3 *)

Vec3(x, y, z) == <<Fl(x), Fl(y), Fl(z)>>

VAdd(a, b) == <<FAdd(a[1], b[1]), FAdd(a[2], b[2]), FAdd(a[3], b[3])>>

VMin(a, b) == <<FMin(a[1], b[1]), FMin(a[2], b[2]), FMin(a[3], b[3])>>

VMax(a, b) == <<FMax(a[1], b[1]), FMax(a[2], b[2]), FMax(a[3], b[3])>>

----------------------------------------------------------------------------
(* The random engine and zero_or_one.  The engine is a deterministic        *)
(* function of its state whose output stream is implementation-defined: it  *)
(* is modelled by a rotating register of GenBits bits, so that the first    *)
(* GenBits draws range over every bit string when the register ranges over  *)
(* Seeds.                                                                   *)

Seeds == [1..GenBits -> {0, 1}]

ZeroOrOne(g) == [value |-> g[1], generator |-> Tail(g) \o <<g[1]>>]

----------------------------------------------------------------------------
(* initializeShape: the random walk *)

\* (variant) the walk starts on the negative side
WalkInitNegativeSide ==
    [center |-> <<0, 0, 0>>, direction |-> 2, side |-> 0 - 1,
     blocks |-> <<>>, draws |-> <<>>, fatal |-> FALSE]

WalkInit ==
    [center |-> Vec3(0, 0, 0), direction |-> InitialDirection, side |-> 1,
     blocks |-> <<>>, draws |-> <<>>, fatal |-> FALSE]

DirectionVector(direction, side) ==
    <<RoundFloat(Fl(2) * side * (direction \div 4)),
      RoundFloat(Fl(2) * side * ((direction \div 2) % 2)),
      RoundFloat(Fl(2) * side * (direction % 2))>>

\* (variant) the inner loop runs while i <= length
RECURSIVE PlaceCubesInclusive(_, _, _, _)
PlaceCubesInclusive(center, blocks, d, length) ==
    IF length < 0 THEN [center |-> center, blocks |-> blocks]
    ELSE PlaceCubesInclusive(VAdd(center, d), Append(blocks, center), d, length - 1)

RECURSIVE PlaceCubes(_, _, _, _)
PlaceCubes(center, blocks, d, length) ==
    IF length <= 0 THEN [center |-> center, blocks |-> blocks]
    ELSE PlaceCubes(VAdd(center, d), Append(blocks, center), d, length - 1)

\* (variant) case 2 picks between 2 and 4
NextDirectionMayStay(direction, bit) ==
    CASE direction = 1 -> (IF bit # 0 THEN 2 ELSE 4)
      [] direction = 2 -> (IF bit # 0 THEN 2 ELSE 4)
      [] direction = 4 -> (IF bit # 0 THEN 1 ELSE 2)
      [] OTHER -> direction

NextDirection(direction, bit) ==
    CASE direction = 1 -> (IF bit # 0 THEN 2 ELSE 4)
      [] direction = 2 -> (IF bit # 0 THEN 1 ELSE 4)
      [] direction = 4 -> (IF bit # 0 THEN 1 ELSE 2)
      [] OTHER -> direction

FlipSide(side, bit) == IF bit # 0 THEN 0 - side ELSE side

\* (variant) the side draw is made only when the axis draw was 1
SegmentIterShortCircuit(w, g, length) ==
    LET d == DirectionVector(w.direction, w.side)
        placed == PlaceCubes(w.center, w.blocks, d, length)
        axisDraw == ZeroOrOne(g)
        draws1 == Append(w.draws, <<"axis", axisDraw.value>>)
        sideDraw == ZeroOrOne(axisDraw.generator)
        drawSide == axisDraw.value # 0
    IN  [walk |-> [center |-> placed.center,
                   direction |-> NextDirection(w.direction, axisDraw.value),
                   side |-> IF drawSide THEN FlipSide(w.side, sideDraw.value) ELSE w.side,
                   blocks |-> placed.blocks,
                   draws |-> IF drawSide THEN Append(draws1, <<"side", sideDraw.value>>) ELSE draws1,
                   fatal |-> w.fatal],
         generator |-> IF drawSide THEN sideDraw.generator ELSE axisDraw.generator]

\* one iteration of `for (auto length : segments)`
SegmentIter(w, g, length) ==
    LET d == DirectionVector(w.direction, w.side)
        placed == PlaceCubes(w.center, w.blocks, d, length)
        known == w.direction \in {1, 2, 4}
        axisDraw == ZeroOrOne(g)
        g1 == IF known THEN axisDraw.generator ELSE g
        direction1 == IF known THEN NextDirection(w.direction, axisDraw.value) ELSE w.direction
        draws1 == IF known THEN Append(w.draws, <<"axis", axisDraw.value>>) ELSE w.draws
        sideDraw == ZeroOrOne(g1)
    IN  [walk |-> [center |-> placed.center,
                   direction |-> direction1,
                   side |-> FlipSide(w.side, sideDraw.value),
                   blocks |-> placed.blocks,
                   draws |-> Append(draws1, <<"side", sideDraw.value>>),
                   fatal |-> w.fatal \/ ~known],
         generator |-> sideDraw.generator]

RECURSIVE RunWalk(_, _, _)
RunWalk(w, g, segs) ==
    IF segs = <<>> THEN [walk |-> w, generator |-> g]
    ELSE LET r == SegmentIter(w, g, Head(segs))
         IN  RunWalk(r.walk, r.generator, Tail(segs))

----------------------------------------------------------------------------
(* initializeShape: vertices, mesh and bounding box *)

AddFace(center, p0, p1, p2, p3) ==
    << [position |-> VAdd(p0, center), texCoord |-> <<Fl(0), Fl(0)>>],
       [position |-> VAdd(p1, center), texCoord |-> <<Fl(0), Fl(1)>>],
       [position |-> VAdd(p2, center), texCoord |-> <<Fl(1), Fl(1)>>],
       [position |-> VAdd(p2, center), texCoord |-> <<Fl(1), Fl(1)>>],
       [position |-> VAdd(p3, center), texCoord |-> <<Fl(1), Fl(0)>>],
       [position |-> VAdd(p0, center), texCoord |-> <<Fl(0), Fl(0)>> ] >>

CubeVertices(center) ==
       AddFace(center, Vec3(-1, 1, -1), Vec3(-1, 1, 1), Vec3(1, 1, 1), Vec3(1, 1, -1))
    \o AddFace(center, Vec3(1, -1, -1), Vec3(1, -1, 1), Vec3(-1, -1, 1), Vec3(-1, -1, -1))
    \o AddFace(center, Vec3(-1, -1, -1), Vec3(-1, -1, 1), Vec3(-1, 1, 1), Vec3(-1, 1, -1))
    \o AddFace(center, Vec3(1, 1, -1), Vec3(1, 1, 1), Vec3(1, -1, 1), Vec3(1, -1, -1))
    \o AddFace(center, Vec3(-1, -1, -1), Vec3(-1, 1, -1), Vec3(1, 1, -1), Vec3(1, -1, -1))
    \o AddFace(center, Vec3(1, -1, 1), Vec3(1, 1, 1), Vec3(-1, 1, 1), Vec3(-1, -1, 1))

RECURSIVE BuildVertices(_)
BuildVertices(blocks) ==
    IF blocks = <<>> THEN <<>>
    ELSE CubeVertices(Head(blocks)) \o BuildVertices(Tail(blocks))

\* What is set on the external Mesh: the count, the stride and the attribute
\* layout (component count, byte offset).  The vertex data itself is handed
\* over by pointer and uploaded by the collaborator; it is the variable
\* `vertices` of the call.
MakeMesh(vs) ==
    [vertexCount |-> Len(vs), vertexSize |-> VertexSize,
     attributes |-> << <<3, 0>>, <<2, 12>> >>]

BoundingBoxInit ==
    [min |-> <<FltMax, FltMax, FltMax>>, max |-> <<FltMin, FltMin, FltMin>>]

\* (variant) glm::min and glm::max exchanged
GrowBoundingBoxSwapped(bb, p) == [min |-> VMax(bb.min, p), max |-> VMin(bb.max, p)]

GrowBoundingBox(bb, p) == [min |-> VMin(bb.min, p), max |-> VMax(bb.max, p)]

\* The loop `for (auto &vertex : vertices)` over vertices lo..hi.  glm::min and
\* glm::max are associative, commutative and idempotent, so the left-to-right
\* loop is evaluated here as a balanced tree over the same vertices, each leaf
\* started from the initial box.
RECURSIVE FoldBoundingBox(_, _, _)
FoldBoundingBox(vs, lo, hi) ==
    IF lo > hi THEN BoundingBoxInit
    ELSE IF lo = hi THEN GrowBoundingBox(BoundingBoxInit, vs[lo].position)
    ELSE LET mid == (lo + hi) \div 2
             left == FoldBoundingBox(vs, lo, mid)
             right == FoldBoundingBox(vs, mid + 1, hi)
         IN  [min |-> VMin(left.min, right.min), max |-> VMax(left.max, right.max)]

ComputeBoundingBox(vs) == FoldBoundingBox(vs, 1, Len(vs))

MakeShape(vs) ==
    [boundingBox |-> ComputeBoundingBox(vs), mesh |-> MakeMesh(vs)]

\* the whole call, as Demo::initialize uses it
InitializeShape(segs, g) ==
    LET r == RunWalk(WalkInit, g, segs)
    IN  [shape |-> MakeShape(BuildVertices(r.walk.blocks)), generator |-> r.generator]

NoShape == [boundingBox |-> BoundingBoxInit, mesh |-> MakeMesh(<<>>)]

NoRun == [blocks |-> <<>>, vertices |-> <<>>, draws |-> <<>>]

----------------------------------------------------------------------------
(* Specification of one initializeShape call, run twice from the same engine *)
(* state (the engine is a function-local static that is default-constructed  *)
(* at every process start).                                                  *)

SegmentLists == UNION {[1..n -> 0..MaxLen] : n \in 1..MaxSegs} \cup {DemoSegments}

DemoIdle ==
    /\ m_canvasWidth = 0
    /\ m_canvasHeight = 0
    /\ m_curTime = Fl(0)
    /\ m_shapeProgram = [state |-> "null"]
    /\ m_shapes = <<>>
    /\ initResult = "none"
    /\ crashed = FALSE
    /\ frames = <<>>
    /\ dts = <<>>
    /\ stderr = <<>>

InitShape ==
    /\ DemoIdle
    /\ segments \in SegmentLists
    /\ generator \in Seeds
    /\ seed = generator
    /\ idx = 0
    /\ walk = WalkInit
    /\ vertices = <<>>
    /\ shape = NoShape
    /\ pc = "walk"
    /\ run = 1
    /\ firstRun = NoRun

SegmentStep ==
    /\ pc = "walk"
    /\ idx < Len(segments)
    /\ LET r == SegmentIter(walk, generator, segments[idx + 1])
       IN  /\ walk' = r.walk
           /\ generator' = r.generator
    /\ idx' = idx + 1
    /\ UNCHANGED <<demoVars, segments, vertices, shape, pc, run, firstRun, seed>>

FinishShape ==
    /\ pc = "walk"
    /\ idx = Len(segments)
    /\ vertices' = BuildVertices(walk.blocks)
    /\ shape' = MakeShape(vertices')
    /\ pc' = "done"
    /\ UNCHANGED <<demoVars, generator, segments, idx, walk, run, firstRun, seed>>

Restart ==
    /\ pc = "done"
    /\ run = 1
    /\ firstRun' = [blocks |-> walk.blocks, vertices |-> vertices, draws |-> walk.draws]
    /\ run' = 2
    /\ generator' = seed
    /\ idx' = 0
    /\ walk' = WalkInit
    /\ vertices' = <<>>
    /\ shape' = NoShape
    /\ pc' = "walk"
    /\ UNCHANGED <<demoVars, segments, seed>>

NextShape == SegmentStep \/ FinishShape \/ Restart

SpecShape == InitShape /\ [][NextShape]_vars

----------------------------------------------------------------------------
(* initializeProgram.  ShaderProgram is an external collaborator: whether   *)
(* addShader and link succeed is an input of the call.                      *)

InitializeProgram(vsOk, fsOk, linkOk) ==
    IF ~vsOk THEN
        [result |-> FALSE,
         program |-> [state |-> "created", vertex |-> "failed", fragment |-> "none", link |-> "none"],
         log |-> <<"Failed to add vertex shader">>]
    ELSE IF ~fsOk THEN
        [result |-> FALSE,
         program |-> [state |-> "created", vertex |-> "ok", fragment |-> "failed", link |-> "none"],
         log |-> <<"Failed to add fragment shader">>]
    ELSE
        [result |-> TRUE,
         program |-> [state |-> "created", vertex |-> "ok", fragment |-> "ok",
                      link |-> IF linkOk THEN "ok" ELSE "failed"],
         log |-> IF linkOk THEN <<>> ELSE <<"Failed to link shader">>]

\* the loop `for (int i = 0; i < 6; ++i) m_shapes.push_back(initializeShape(segments))`
RECURSIVE InitializeShapes(_, _, _, _)
InitializeShapes(shapes, n, segs, g) ==
    IF n <= 0 THEN [shapes |-> shapes, generator |-> g]
    ELSE LET r == InitializeShape(segs, g)
         IN  InitializeShapes(Append(shapes, r.shape), n - 1, segs, r.generator)

----------------------------------------------------------------------------
(* Demo::render.  Canvas sizes are non-negative and small, so the mixed     *)
(* int / size_t arithmetic of the layout neither wraps nor changes sign.    *)

\* (variant) the row count is one more than the number of full rows
RowCountFullRowsPlusOne(n) == (n \div Columns) + 1

RowCount(n) == (n + Columns - 1) \div Columns

ViewportWidth(width) == width \div Columns

ViewportHeight(height, n) == height \div RowCount(n)

\* (variant) the angle does not follow the elapsed time
AngleOfFirstTick(time) == 0 - RoundFloat(3 * Fl(1))

\* -1.5f * m_curTime, counted in 1/(2 * One) radians
Angle(time) == 0 - RoundFloat(3 * time)

\* 0.5f * (boundingBox.min + boundingBox.max), counted in 1/(2 * One) units
BoxCenter(bb) == VAdd(bb.min, bb.max)

\* one iteration of the loop over m_shapes; i is the 0-based index
DrawShape(i, s, viewportWidth, viewportHeight, time) ==
    [viewport |-> <<(i % Columns) * viewportWidth, (i \div Columns) * viewportHeight,
                    viewportWidth, viewportHeight>>,
     aspect |-> <<viewportWidth, viewportHeight>>,
     center |-> BoxCenter(s.boundingBox),
     angle |-> Angle(time),
     vertexCount |-> s.mesh.vertexCount]

\* What one call of render issues.  With no shapes the row count is 0 and the
\* division that computes viewportHeight is undefined: the build either traps
\* there ("trap") or goes on with some value that no iteration reads ("continue").
RenderOutcomes(shapes) == IF RowCount(Len(shapes)) = 0 THEN {"trap", "continue"} ELSE {"continue"}

Render(shapes, width, height, time, outcome) ==
    [clear |-> TRUE,
     program |-> "bound",
     time |-> time,
     returned |-> outcome = "continue",
     draws |-> IF RowCount(Len(shapes)) = 0 THEN <<>>
               ELSE [k \in 1..Len(shapes) |->
                        DrawShape(k - 1, shapes[k], ViewportWidth(width),
                                  ViewportHeight(height, Len(shapes)), time)]]

----------------------------------------------------------------------------
(* class Demo *)

CanvasSizes == {<<640, 480>>, <<800, 601>>, <<2, 1>>}

\* The engine is default-constructed, so a process starts it in one fixed,
\* implementation-defined state: a few representative registers.
ZeroSeed == [i \in 1..GenBits |-> 0]

EngineStartStates ==
    {ZeroSeed, [i \in 1..GenBits |-> i % 2], [i \in 1..GenBits |-> IF i <= 2 THEN 1 ELSE 0]}

DtValues == {Fl(0), Fl(1), Fl(2 ^ MantissaBits)}

CallIdle ==
    /\ segments = <<>>
    /\ idx = 0
    /\ walk = WalkInit
    /\ vertices = <<>>
    /\ shape = NoShape
    /\ pc = "idle"
    /\ run = 1
    /\ firstRun = NoRun

\* the state after Demo::Demo(canvasWidth, canvasHeight)
Init ==
    /\ \E size \in CanvasSizes : m_canvasWidth = size[1] /\ m_canvasHeight = size[2]
    /\ m_curTime = Fl(0)
    /\ m_shapeProgram = [state |-> "null"]
    /\ m_shapes = <<>>
    /\ generator \in EngineStartStates
    /\ seed = generator
    /\ initResult = "none"
    /\ crashed = FALSE
    /\ frames = <<>>
    /\ dts = <<>>
    /\ stderr = <<>>
    /\ CallIdle

\* Demo::initialize
Initialize ==
    /\ initResult = "none"
    /\ ~crashed
    /\ \E vsOk \in BOOLEAN, fsOk \in BOOLEAN, linkOk \in BOOLEAN :
         LET p == InitializeProgram(vsOk, fsOk, linkOk)
         IN  /\ m_shapeProgram' = p.program
             /\ stderr' = stderr \o p.log
             /\ IF ~p.result
                THEN /\ initResult' = "false"
                     /\ UNCHANGED <<m_shapes, generator>>
                ELSE LET r == InitializeShapes(m_shapes, ShapeCount, DemoSegments, generator)
                     IN  /\ m_shapes' = r.shapes
                         /\ generator' = r.generator
                         /\ initResult' = "true"
    /\ UNCHANGED <<m_canvasWidth, m_canvasHeight, m_curTime, crashed, frames, dts, callVars>>

\* (variant) m_curTime += dt comes before render()
StepAndRender ==
    /\ m_shapeProgram.state # "null"
    /\ ~crashed
    /\ Len(dts) < MaxFrames
    /\ \E dt \in DtValues, outcome \in RenderOutcomes(m_shapes) :
         LET frame == Render(m_shapes, m_canvasWidth, m_canvasHeight, FAdd(m_curTime, dt), outcome)
         IN  /\ frames' = Append(frames, frame)
             /\ dts' = Append(dts, dt)
             /\ crashed' = ~frame.returned
             /\ m_curTime' = FAdd(m_curTime, dt)
    /\ UNCHANGED <<m_canvasWidth, m_canvasHeight, m_shapeProgram, m_shapes, generator,
                   initResult, stderr, callVars>>

\* Demo::renderAndStep
RenderAndStep ==
    /\ m_shapeProgram.state # "null"
    /\ ~crashed
    /\ Len(dts) < MaxFrames
    /\ \E dt \in DtValues, outcome \in RenderOutcomes(m_shapes) :
         LET frame == Render(m_shapes, m_canvasWidth, m_canvasHeight, m_curTime, outcome)
         IN  /\ frames' = Append(frames, frame)
             /\ dts' = Append(dts, dt)
             /\ crashed' = ~frame.returned
             /\ m_curTime' = IF frame.returned THEN FAdd(m_curTime, dt) ELSE m_curTime
    /\ UNCHANGED <<m_canvasWidth, m_canvasHeight, m_shapeProgram, m_shapes, generator,
                   initResult, stderr, callVars>>

Next == Initialize \/ RenderAndStep

Spec == Init /\ [][Next]_vars

----------------------------------------------------------------------------
(* Specification of the layout: Demo::render applied to collections of any  *)
(* size 0..MaxShapes.                                                       *)

InitLayout ==
    /\ \E size \in CanvasSizes : m_canvasWidth = size[1] /\ m_canvasHeight = size[2]
    /\ m_curTime = Fl(0)
    /\ m_shapeProgram = InitializeProgram(TRUE, TRUE, TRUE).program
    /\ seed = ZeroSeed
    /\ \E n \in 0..MaxShapes :
         LET r == InitializeShapes(<<>>, n, DemoSegments, seed)
         IN  m_shapes = r.shapes /\ generator = r.generator
    /\ initResult = "true"
    /\ crashed = FALSE
    /\ frames = <<>>
    /\ dts = <<>>
    /\ stderr = <<>>
    /\ CallIdle

NextLayout == RenderAndStep

SpecLayout == InitLayout /\ [][NextLayout]_vars

----------------------------------------------------------------------------
(* Properties *)

RECURSIVE SumSeq(_)
SumSeq(s) == IF s = <<>> THEN 0 ELSE Head(s) + SumSeq(Tail(s))

Generating == pc \in {"walk", "done"}

\* C1: generation places exactly sum(lengths) cube centers and emits exactly
\* 36 vertices per placed cube; after each segment the block list holds the
\* sum of the lengths processed so far, so a zero-length entry places no cube.
CubeAndVertexCounts ==
    /\ Generating => Len(walk.blocks) = SumSeq(SubSeq(segments, 1, idx))
    /\ pc = "done" =>
         /\ Len(walk.blocks) = SumSeq(segments)
         /\ Len(vertices) = 36 * SumSeq(segments)
         /\ shape.mesh.vertexCount = 36 * SumSeq(segments)

CubeAndVertexCountsWitness ==
    /\ pc = "done"
    /\ Len(segments) >= 2
    /\ segments[1] = 0
    /\ segments[2] > 0
    /\ Len(vertices) = 36 * segments[2]

OneHot(direction) ==
    /\ direction \in 0..7
    /\ (direction \div 4) + ((direction \div 2) % 2) + (direction % 2) = 1

\* C2: at every segment boundary the next axis is one of the other two axes,
\* never the axis just used; the axis stays one-hot and the default branch
\* of the switch is never taken.
AxisAlwaysTurns ==
    [][idx' = idx + 1 =>
          /\ OneHot(walk.direction)
          /\ OneHot(walk'.direction)
          /\ walk'.direction # walk.direction
          /\ ~walk'.fatal]_vars

AxisAlwaysTurnsWitness ==
    /\ pc = "walk"
    /\ idx = 3
    /\ walk.direction = 1
    /\ walk.draws[1] = <<"axis", 1>>
    /\ walk.draws[3] = <<"axis", 0>>
    /\ walk.draws[5] = <<"axis", 1>>

BoxOrdered(bb) == \A i \in 1..3 : bb.min[i] <= bb.max[i]

\* C7 as stated: every shape generated from a non-empty list of entries >= 0
\* has a bounding box with min <= max in each component.
BoundingBoxOrderedAlways == pc = "done" => BoxOrdered(shape.boundingBox)

\* C7 amended: every generated shape with at least one placed cube has a
\* bounding box with min <= max in each component.
BoundingBoxOrderedWithCubes ==
    (pc = "done" /\ Len(walk.blocks) >= 1) => BoxOrdered(shape.boundingBox)

BoundingBoxOrderedWitness ==
    /\ pc = "done"
    /\ Len(walk.blocks) >= 3
    /\ shape.boundingBox.min[1] < Fl(0 - 1)
    /\ shape.boundingBox.max[2] > Fl(1)

\* bit2 = X, bit1 = Y, bit0 = Z
AxisUnit(direction) ==
    CASE direction = 4 -> <<1, 0, 0>>
      [] direction = 2 -> <<0, 1, 0>>
      [] direction = 1 -> <<0, 0, 1>>

Along(center, steps, direction, side) ==
    LET u == AxisUnit(direction)
    IN  <<center[1] + Fl(2) * side * steps * u[1],
          center[2] + Fl(2) * side * steps * u[2],
          center[3] + Fl(2) * side * steps * u[3]>>

CubesAdvanceAlongAxis ==
    [][idx' = idx + 1 =>
          LET length == segments[idx + 1]
              first == Len(walk.blocks)
          IN  /\ \A k \in 1..length :
                    walk'.blocks[first + k] = Along(walk.center, k - 1, walk.direction, walk.side)
              /\ walk'.center = Along(walk.center, length, walk.direction, walk.side)]_vars

\* C10 as stated: generation starts on axis Z (bit0) and the centers of a
\* first segment of length L are (0,0,0), (0,0,2), ..., (0,0,2(L-1)).
FirstSegmentAlongZ ==
    (Generating /\ idx >= 1) =>
        \A k \in 1..segments[1] : walk.blocks[k] = Vec3(0, 0, 2 * (k - 1))

\* C10 amended: generation starts with center at the origin, axis = Y (bit1 of
\* the one-hot pattern) and side = +1; within a segment each placed cube
\* advances the center by 2 * side along the active axis; the centers of a
\* first segment of length L are (0,0,0), (0,2,0), ..., (0,2(L-1),0).
FirstSegmentAlongY ==
    /\ []((Generating /\ idx = 0) =>
            /\ walk.center = Vec3(0, 0, 0)
            /\ walk.direction = 2
            /\ AxisUnit(walk.direction) = <<0, 1, 0>>
            /\ walk.side = 1)
    /\ []((Generating /\ idx >= 1) =>
            \A k \in 1..segments[1] : walk.blocks[k] = Vec3(0, 2 * (k - 1), 0))
    /\ CubesAdvanceAlongAxis

FirstSegmentWitness ==
    /\ Generating
    /\ idx >= 2
    /\ segments[1] >= 2
    /\ segments[2] >= 2
    /\ walk.blocks[2] = Vec3(0, 2, 0)

RECURSIVE FSumUpTo(_, _)
FSumUpTo(s, k) == IF k = 0 THEN Fl(0) ELSE FAdd(FSumUpTo(s, k - 1), s[k])

\* C3: every renderAndStep call renders with the elapsed time as it was before
\* the call and then adds dt once: the first frame uses time 0, the k-th frame
\* the accumulated dt of the previous k-1 calls, and the time never decreases.
RenderBeforeAdvance ==
    /\ Len(frames) = Len(dts)
    /\ \A k \in 1..Len(frames) :
          /\ frames[k].time = FSumUpTo(dts, k - 1)
          /\ \A i \in 1..Len(frames[k].draws) :
                frames[k].draws[i].angle = 0 - RoundFloat(3 * FSumUpTo(dts, k - 1))
    /\ Len(frames) >= 1 => frames[1].time = 0
    /\ \A k \in 1..(Len(frames) - 1) : frames[k].time <= frames[k + 1].time
    /\ ~crashed => m_curTime = FSumUpTo(dts, Len(dts))

RenderBeforeAdvanceWitness ==
    /\ Len(frames) >= 3
    /\ Len(m_shapes) = 6
    /\ dts[1] = Fl(1)
    /\ dts[2] = Fl(1)
    /\ frames[2].time = Fl(1)
    /\ frames[3].time = Fl(2)

ShaderStepFailed ==
    /\ m_shapeProgram.state # "null"
    /\ \/ m_shapeProgram.vertex = "failed"
       \/ m_shapeProgram.fragment = "failed"
       \/ m_shapeProgram.link = "failed"

\* C4: if adding the vertex shader, adding the fragment shader or linking
\* fails, initialize returns failure and the shape collection stays empty.
ShaderFailureIsFatal ==
    ShaderStepFailed => (initResult = "false" /\ m_shapes = <<>>)

\* C5: rendering an empty shape collection clears the buffers, issues no
\* viewport or draw call and completes.
EmptyRenderCompletes ==
    Len(m_shapes) = 0 =>
        \A k \in 1..Len(frames) :
            /\ frames[k].clear
            /\ frames[k].draws = <<>>
            /\ frames[k].returned

CeilThird(n) == CHOOSE r \in 0..n : 3 * r >= n /\ 3 * (r - 1) < n

GridCells == << <<0, 0>>, <<1, 0>>, <<2, 0>>, <<0, 1>>, <<1, 1>>, <<2, 1>> >>

\* C6: for n >= 1 shapes on a W x H surface render uses 3 columns,
\* ceil(n / 3) rows, viewports of W div 3 by H div rows, and gives shape i the
\* origin ((i mod 3) * width, (i div 3) * height); for n = 6 these are the
\* cells (0,0),(1,0),(2,0),(0,1),(1,1),(2,1) of a grid of 2 rows.
ViewportGrid ==
    LET n == Len(m_shapes)
        w == m_canvasWidth \div 3
    IN  n >= 1 =>
          \A k \in 1..Len(frames) :
             /\ Len(frames[k].draws) = n
             /\ \A i \in 0..(n - 1) :
                   frames[k].draws[i + 1].viewport =
                       <<(i % 3) * w, (i \div 3) * (m_canvasHeight \div CeilThird(n)),
                         w, m_canvasHeight \div CeilThird(n)>>
             /\ n = 6 =>
                   \A i \in 1..6 :
                       frames[k].draws[i].viewport =
                           <<GridCells[i][1] * w, GridCells[i][2] * (m_canvasHeight \div 2),
                             w, m_canvasHeight \div 2>>

ViewportGridWitness ==
    /\ Len(m_shapes) = 6
    /\ Len(frames) >= 1
    /\ m_canvasWidth = 800
    /\ frames[1].draws[5].viewport = <<266, 300, 266, 300>>

FrameAngles(k) == [i \in 1..Len(frames[k].draws) |-> Abs(frames[k].draws[i].angle)]

\* C8 as stated: a call with dt = 0 leaves the time and the next frame's
\* transforms unchanged; a call with dt > 0 makes the magnitude of the
\* rotation angle of the next frame strictly larger.
PositiveDtTurnsFurther ==
    \A k \in 1..(Len(frames) - 1) :
        /\ dts[k] = 0 => (frames[k + 1].time = frames[k].time /\ frames[k + 1].draws = frames[k].draws)
        /\ dts[k] > 0 =>
              \A i \in 1..Len(frames[k].draws) : FrameAngles(k + 1)[i] > FrameAngles(k)[i]

\* C8 amended: a call with dt = 0 leaves the time and the next frame's
\* transforms unchanged; a call with dt > 0 never makes the magnitude of the
\* rotation angle of the next frame smaller, and makes it strictly larger
\* whenever the sum elapsedTime + dt and its product with 1.5 need no rounding.
PositiveDtNeverTurnsBack ==
    \A k \in 1..(Len(frames) - 1) :
        /\ dts[k] = 0 => (frames[k + 1].time = frames[k].time /\ frames[k + 1].draws = frames[k].draws)
        /\ dts[k] > 0 =>
              \A i \in 1..Len(frames[k].draws) :
                  /\ FrameAngles(k + 1)[i] >= FrameAngles(k)[i]
                  /\ 3 * (frames[k].time + dts[k]) < 2 ^ MantissaBits =>
                        FrameAngles(k + 1)[i] > FrameAngles(k)[i]

PositiveDtWitness ==
    /\ Len(frames) >= 3
    /\ Len(m_shapes) = 6
    /\ dts[1] = Fl(1)
    /\ dts[2] = Fl(0)
    /\ frames[2].draws[1].angle = 0 - 3 * Fl(1)
    /\ frames[3].draws = frames[2].draws

====
